---- MODULE Spec2Model ----
(***************************************************************************)
(* The knowledge-graph view: App (refresh trigger, live feed) and          *)
(* GraphVisualization (graph store, fetches, filter / expansion state and  *)
(* the projection of the stored graph onto the rendered subgraph).         *)
(***************************************************************************)
EXTENDS Integers, Sequences, FiniteSets, TLC

(***************************************************************************)
(* Bounds of the model.                                                    *)
(***************************************************************************)
MaxNodes == 3
MaxEdges == 2
MaxVersion == 1
MaxSideEdges == 1

(***************************************************************************)
(* Values.  Node ids are 1, 2, ...; Null is the null id (no focus, no      *)
(* latest strategy).  A node carries the fields the component reads: id,   *)
(* type, version (NoVersion when the field is absent) and classification   *)
(* (Missing when the field is absent).                                     *)
(***************************************************************************)
Null == 0
NoVersion == -1
Missing == "<missing>"

NodeTypes == {"strategy", "company", "evidence", "lesson"}
Classification == {"Strike", "Monitor", "Disregard", "Unclassified"}

NoNode == [id |-> Null, type |-> "null", version |-> NoVersion, classification |-> Missing]

Node(i, t, v, c) == [id |-> i, type |-> t, version |-> v, classification |-> c]
RawEdge(s, t) == [source |-> s, target |-> t, type |-> "rel"]

(***************************************************************************)
(* getCompanyClassification                                                *)
(***************************************************************************)
\* variant: an unknown label is passed through instead of defaulted
getCompanyClassificationPassThrough(node) ==
    LET c == node.classification
    IN  IF c # Missing THEN c ELSE "Unclassified"

getCompanyClassification(node) ==
    LET c == node.classification
    IN  IF c = "Strike" \/ c = "Monitor" \/ c = "Disregard" THEN c ELSE "Unclassified"

(***************************************************************************)
(* latestStrategyId: one pass over fullNodes keeping the best strategy so  *)
(* far; a later node replaces it only with a strictly greater version.     *)
(***************************************************************************)
VersionOrZero(n) == IF n.version = NoVersion THEN 0 ELSE n.version

\* variant: >= instead of >, the last of the greatest versions wins
RECURSIVE BestStrategyLastWins(_, _, _)
BestStrategyLastWins(nodes, i, best) ==
    IF i > Len(nodes) THEN best
    ELSE LET n == nodes[i]
         IN  BestStrategyLastWins(nodes, i + 1,
                IF n.type = "strategy"
                   /\ (best = NoNode \/ VersionOrZero(n) >= VersionOrZero(best))
                THEN n ELSE best)

RECURSIVE BestStrategy(_, _, _)
BestStrategy(nodes, i, best) ==
    IF i > Len(nodes) THEN best
    ELSE LET n == nodes[i]
         IN  BestStrategy(nodes, i + 1,
                IF n.type = "strategy"
                   /\ (best = NoNode \/ VersionOrZero(n) > VersionOrZero(best))
                THEN n ELSE best)

latestStrategyId(nodes) == BestStrategy(nodes, 1, NoNode).id

(***************************************************************************)
(* expandedIds: the adjacency map and the two-hop walk from the focus.     *)
(* The map is a function whose domain is the set of keys present.          *)
(***************************************************************************)
EmptyMap == [k \in {} |-> {}]

MapGet(m, k) == IF k \in DOMAIN m THEN m[k] ELSE {}

\* variant: the reverse direction is not inserted
addEdgeDirected(adj, a, b) ==
    LET adj1 == IF a \in DOMAIN adj THEN adj ELSE adj @@ (a :> {})
    IN  [adj1 EXCEPT ![a] = @ \cup {b}]

addEdge(adj, a, b) ==
    LET adj1 == IF a \in DOMAIN adj THEN adj ELSE adj @@ (a :> {})
        adj2 == [adj1 EXCEPT ![a] = @ \cup {b}]
        adj3 == IF b \in DOMAIN adj2 THEN adj2 ELSE adj2 @@ (b :> {})
    IN  [adj3 EXCEPT ![b] = @ \cup {a}]

RECURSIVE BuildAdj(_, _, _)
BuildAdj(edges, i, adj) ==
    IF i > Len(edges) THEN adj
    ELSE BuildAdj(edges, i + 1, addEdge(adj, edges[i].source, edges[i].target))

Adjacency(edges) == BuildAdj(edges, 1, EmptyMap)

\* new Map(fullNodes.map(n => [n.id, n])).get(id): the last entry with the id
RECURSIVE NodeByIdFrom(_, _, _)
NodeByIdFrom(nodes, i, id) ==
    IF i = 0 THEN NoNode
    ELSE IF nodes[i].id = id THEN nodes[i] ELSE NodeByIdFrom(nodes, i - 1, id)

nodeById(nodes, id) == NodeByIdFrom(nodes, Len(nodes), id)

\* variant: the type test of the walk is dropped
IsDetailAnyType(n) == n # NoNode

IsDetail(n) == n # NoNode /\ (n.type = "evidence" \/ n.type = "lesson")

\* variant: the second hop goes through every neighbour of the focus
expandedIdsAnyIntermediate(focus, edges, nodes) ==
    IF focus = Null THEN {}
    ELSE LET adj  == Adjacency(edges)
             hop1 == MapGet(adj, focus)
             direct == {id \in hop1 : IsDetail(nodeById(nodes, id))}
             mids == {id \in hop1 : nodeById(nodes, id) # NoNode}
             second == UNION {{id2 \in MapGet(adj, id) : IsDetail(nodeById(nodes, id2))}
                              : id \in mids}
         IN  direct \cup second

expandedIds(focus, edges, nodes) ==
    IF focus = Null THEN {}
    ELSE LET adj  == Adjacency(edges)
             hop1 == MapGet(adj, focus)
             direct == {id \in hop1 : IsDetail(nodeById(nodes, id))}
             mids == {id \in hop1 : nodeById(nodes, id) # NoNode
                                     /\ nodeById(nodes, id).type = "strategy"}
             second == UNION {{id2 \in MapGet(adj, id) : IsDetail(nodeById(nodes, id2))}
                              : id \in mids}
         IN  direct \cup second

(***************************************************************************)
(* filteredData: the visible id set, then the projected nodes and links.   *)
(***************************************************************************)
NodeVisible(node, latest, filters, expanded) ==
    IF node.type = "strategy" /\ node.id = latest THEN TRUE
    ELSE IF node.type = "company" THEN getCompanyClassification(node) \in filters
    ELSE IF (node.type = "evidence" \/ node.type = "lesson")
            /\ node.id \in expanded THEN TRUE
    ELSE FALSE

visibleNodeIds(nodes, edges, filters, focus) ==
    LET latest == latestStrategyId(nodes)
        expanded == expandedIds(focus, edges, nodes)
    IN  {nodes[i].id : i \in {j \in 1..Len(nodes) :
                                 NodeVisible(nodes[j], latest, filters, expanded)}}

\* variant: a link is kept when either endpoint is visible
filteredDataEitherEnd(nodes, edges, filters, focus) ==
    LET vis == visibleNodeIds(nodes, edges, filters, focus)
        In(n) == n.id \in vis
        Either(e) == e.source \in vis \/ e.target \in vis
    IN  [nodes |-> SelectSeq(nodes, In), links |-> SelectSeq(edges, Either)]

filteredData(nodes, edges, filters, focus) ==
    LET vis == visibleNodeIds(nodes, edges, filters, focus)
        In(n) == n.id \in vis
        Both(e) == e.source \in vis /\ e.target \in vis
    IN  [nodes |-> SelectSeq(nodes, In), links |-> SelectSeq(edges, Both)]

(***************************************************************************)
(* fetchGraph() payloads.  A link endpoint is a bare id or an embedded     *)
(* node object; the nodes / links fields may be absent from the payload.   *)
(***************************************************************************)
EndId(i) == [kind |-> "string", id |-> i]
EndObj(n) == [kind |-> "object", node |-> n]
Link(s, t) == [source |-> s, target |-> t, type |-> "rel"]
Payload(hn, ns, hl, ls) == [hasNodes |-> hn, nodes |-> ns, hasLinks |-> hl, links |-> ls]

\* typeof l.source === "object" ? (l.source as GraphNode).id : l.source
EndpointId(x) == IF x.kind = "object" THEN x.node.id ELSE x.id

NormalizeLink(l) ==
    [source |-> EndpointId(l.source), target |-> EndpointId(l.target), type |-> l.type]

\* data.nodes ?? []  and  (data.links ?? []).map(...)
NodesOf(data) == IF data.hasNodes THEN data.nodes ELSE <<>>
EdgesOf(data) ==
    IF data.hasLinks
    THEN [i \in 1..Len(data.links) |-> NormalizeLink(data.links[i])]
    ELSE <<>>

(***************************************************************************)
(* The responses the backend may give in the full specification: a graph   *)
(* with two strategy versions, a company, an evidence node, an embedded    *)
(* endpoint object and a dangling link; a later graph in which the company *)
(* lost its evidence and got an unknown classification; and a payload      *)
(* without nodes or links (the graph after a reset).                       *)
(***************************************************************************)
S1 == Node(1, "strategy", 1, Missing)
S2 == Node(2, "strategy", 2, Missing)
C3 == Node(3, "company", NoVersion, "Strike")
E4 == Node(4, "evidence", NoVersion, Missing)
C3b == Node(3, "company", NoVersion, "Acquired")
L5 == Node(5, "lesson", NoVersion, Missing)

Responses ==
    << Payload(TRUE, <<S1, S2, C3, E4>>, TRUE,
               <<Link(EndId(2), EndId(3)), Link(EndObj(C3), EndObj(E4)),
                 Link(EndId(4), EndId(9))>>),
       Payload(TRUE, <<S2, C3b, L5>>, TRUE,
               <<Link(EndObj(S2), EndId(3)), Link(EndId(5), EndId(2))>>),
       Payload(FALSE, <<>>, FALSE, <<>>) >>

(***************************************************************************)
(* App: the refresh trigger and the live feed.                             *)
(***************************************************************************)
REFRESH_EVENT_TYPES ==
    {"strategy_stored", "market_research_done", "pivot_email_drafted",
     "outage_reprioritized", "graph_reset", "validation_complete"}

\* a feed event type that is not a refresh type
OtherEventType == "agent_thinking"
EventTypes == REFRESH_EVENT_TYPES \cup {OtherEventType}

MaxEvents == 2
MaxTrigger == 2
MaxFetches == 3

NoError == "<null>"
\* e instanceof Error ? e.message : "Failed to load graph"
FetchErrors == {"Network Error", "Failed to load graph"}

VARIABLES
    fullNodes,        \* useState<GraphNode[]>([])
    rawEdges,         \* useState<RawEdge[]>([])
    loading,          \* useState(true)
    error,            \* useState<string | null>(null)
    selectedNode,     \* useState<GraphNode | null>(null)
    expandedCompany,  \* useState<string | null>(null)
    activeFilters,    \* useState(new Set of all four classifications)
    refreshTrigger,   \* App: useState(0)
    events,           \* useActivityFeed().events, newest first
    feedSeen,         \* the App effect has run for the current events array
    loadDeps,         \* dependency array of the last run of the load effect
    inflight,         \* request numbers of the fetchGraph() calls not yet settled
    requested,        \* number of load() calls so far
    lastOk,           \* history: the fetch that succeeded last, and the one before
    owed,             \* history: a refresh event was received, no increment or load since
    reset,            \* history: progress of the latest graph reset signal
    lastClick         \* history: the company clicked by the last step, the focus before

vars == <<fullNodes, rawEdges, loading, error, selectedNode, expandedCompany,
          activeFilters, refreshTrigger, events, feedSeen, loadDeps, inflight,
          requested, lastOk, owed, reset, lastClick>>

store == <<fullNodes, rawEdges>>
ui == <<selectedNode, expandedCompany, activeFilters>>
fetchState == <<loading, error, inflight, requested, lastOk>>
app == <<refreshTrigger, events, feedSeen, owed>>

(***************************************************************************)
(* What the component renders: the early returns of GraphVisualization.    *)
(***************************************************************************)
View ==
    IF loading /\ Len(fullNodes) = 0 THEN "loading"
    ELSE IF error # NoError THEN "error"
    ELSE IF Len(fullNodes) = 0 THEN "empty"
    ELSE "graph"

Rendered == filteredData(fullNodes, rawEdges, activeFilters, expandedCompany)

SeqToSet(s) == {s[i] : i \in 1..Len(s)}

AllFilters == {"Strike", "Monitor", "Disregard", "Unclassified"}

NoFetch == [req |-> 0, data |-> 0, prev |-> 0]
NoClick == [id |-> Null, before |-> Null]

(***************************************************************************)
(* Init: the state of the first render, before any effect has run.         *)
(***************************************************************************)
Init ==
    /\ fullNodes = <<>>
    /\ rawEdges = <<>>
    /\ loading = TRUE
    /\ error = NoError
    /\ selectedNode = NoNode
    /\ expandedCompany = Null
    /\ activeFilters = AllFilters
    /\ refreshTrigger = 0
    /\ events = <<>>
    /\ feedSeen = FALSE
    /\ loadDeps = <<>>
    /\ inflight = {}
    /\ requested = 0
    /\ lastOk = NoFetch
    /\ owed = FALSE
    /\ reset = "none"
    /\ lastClick = NoClick

(***************************************************************************)
(* load(): the synchronous part up to the await.                           *)
(***************************************************************************)
\* variant: the start of a fetch also restores the initial filter state
loadResetsUi ==
    /\ requested < MaxFetches
    /\ loading' = TRUE
    /\ error' = NoError
    /\ requested' = requested + 1
    /\ inflight' = inflight \cup {requested + 1}
    /\ reset' = IF reset = "signalled" THEN "started" ELSE reset
    /\ owed' = FALSE
    /\ lastClick' = NoClick
    /\ selectedNode' = NoNode
    /\ expandedCompany' = Null
    /\ activeFilters' = {"Strike", "Monitor", "Disregard", "Unclassified"}
    /\ UNCHANGED <<store, refreshTrigger, events, feedSeen, lastOk>>

load ==
    /\ requested < MaxFetches
    /\ loading' = TRUE
    /\ error' = NoError
    /\ requested' = requested + 1
    /\ inflight' = inflight \cup {requested + 1}
    /\ reset' = IF reset = "signalled" THEN "started" ELSE reset
    /\ owed' = FALSE
    /\ lastClick' = NoClick
    /\ UNCHANGED <<store, ui, refreshTrigger, events, feedSeen, lastOk>>

\* useEffect(() => { load(); }, [load, refreshTrigger])
LoadEffect ==
    /\ loadDeps # <<refreshTrigger>>
    /\ loadDeps' = <<refreshTrigger>>
    /\ load

\* the Retry button of the error view: onClick={load}
Retry ==
    /\ View = "error"
    /\ load
    /\ UNCHANGED loadDeps

\* variant: a response is stored only when no later request has been made
FetchSuccessIfLatest(r, d) ==
    /\ r \in inflight
    /\ fullNodes' = IF r = requested THEN NodesOf(Responses[d]) ELSE fullNodes
    /\ rawEdges' = IF r = requested THEN EdgesOf(Responses[d]) ELSE rawEdges
    /\ loading' = FALSE
    /\ inflight' = inflight \ {r}
    /\ lastOk' = [req |-> r, data |-> d, prev |-> lastOk.req]
    /\ lastClick' = NoClick
    /\ UNCHANGED <<error, requested, ui, app, loadDeps, reset>>

\* load(): the continuation after fetchGraph() resolved with Responses[d]
FetchSuccess(r, d) ==
    /\ r \in inflight
    /\ fullNodes' = NodesOf(Responses[d])
    /\ rawEdges' = EdgesOf(Responses[d])
    /\ loading' = FALSE
    /\ inflight' = inflight \ {r}
    /\ lastOk' = [req |-> r, data |-> d, prev |-> lastOk.req]
    /\ lastClick' = NoClick
    /\ UNCHANGED <<error, requested, ui, app, loadDeps, reset>>

\* variant: the catch also empties the store
FetchFailureClearsStore(r, msg) ==
    /\ r \in inflight
    /\ error' = msg
    /\ loading' = FALSE
    /\ fullNodes' = <<>>
    /\ rawEdges' = <<>>
    /\ inflight' = inflight \ {r}
    /\ lastClick' = NoClick
    /\ UNCHANGED <<requested, lastOk, ui, app, loadDeps, reset>>

\* load(): the catch / finally after fetchGraph() rejected
FetchFailure(r, msg) ==
    /\ r \in inflight
    /\ error' = msg
    /\ loading' = FALSE
    /\ inflight' = inflight \ {r}
    /\ lastClick' = NoClick
    /\ UNCHANGED <<store, requested, lastOk, ui, app, loadDeps, reset>>

(***************************************************************************)
(* The handlers of the graph view; they exist only while it is rendered.   *)
(***************************************************************************)
toggleFilter(cls) ==
    /\ View = "graph"
    /\ activeFilters' = IF cls \in activeFilters
                        THEN activeFilters \ {cls} ELSE activeFilters \cup {cls}
    /\ reset' = "none"
    /\ lastClick' = NoClick
    /\ UNCHANGED <<store, selectedNode, expandedCompany, fetchState, app, loadDeps>>

\* variant: a company click always sets the focus, it never collapses it
handleNodeClickNoToggle(node) ==
    /\ View = "graph"
    /\ selectedNode' = node
    /\ expandedCompany' = IF node.type = "company" THEN node.id ELSE expandedCompany
    /\ reset' = "none"
    /\ lastClick' = IF node.type = "company"
                    THEN [id |-> node.id, before |-> expandedCompany] ELSE NoClick
    /\ UNCHANGED <<store, activeFilters, fetchState, app, loadDeps>>

handleNodeClick(node) ==
    /\ View = "graph"
    /\ selectedNode' = node
    /\ expandedCompany' = IF node.type = "company"
                          THEN (IF expandedCompany = node.id THEN Null ELSE node.id)
                          ELSE expandedCompany
    /\ reset' = "none"
    /\ lastClick' = IF node.type = "company"
                    THEN [id |-> node.id, before |-> expandedCompany] ELSE NoClick
    /\ UNCHANGED <<store, activeFilters, fetchState, app, loadDeps>>

NodeClick == \E node \in SeqToSet(Rendered.nodes) : handleNodeClick(node)

\* variant: a background click clears the selection and keeps the focus
handleBackgroundClickKeepsFocus ==
    /\ View = "graph"
    /\ selectedNode' = NoNode
    /\ reset' = "none"
    /\ lastClick' = NoClick
    /\ UNCHANGED <<store, expandedCompany, activeFilters, fetchState, app, loadDeps>>

handleBackgroundClick ==
    /\ View = "graph"
    /\ selectedNode' = NoNode
    /\ expandedCompany' = Null
    /\ reset' = "none"
    /\ lastClick' = NoClick
    /\ UNCHANGED <<store, activeFilters, fetchState, app, loadDeps>>

(***************************************************************************)
(* App: the reset button, the live feed and the effect on [events].        *)
(***************************************************************************)
bumpRefresh ==
    /\ refreshTrigger < MaxTrigger
    /\ refreshTrigger' = refreshTrigger + 1
    /\ owed' = FALSE
    /\ reset' = "signalled"
    /\ lastClick' = NoClick
    /\ UNCHANGED <<store, ui, fetchState, events, feedSeen, loadDeps>>

ReceiveEvent(t) ==
    /\ Len(events) < MaxEvents
    /\ events' = <<t>> \o events
    /\ feedSeen' = FALSE
    /\ owed' = (owed \/ t \in REFRESH_EVENT_TYPES)
    /\ reset' = IF t = "graph_reset" THEN "signalled" ELSE reset
    /\ lastClick' = NoClick
    /\ UNCHANGED <<store, ui, fetchState, refreshTrigger, loadDeps>>

AppEffectBumps == Len(events) # 0 /\ events[1] \in REFRESH_EVENT_TYPES

AppEffect ==
    /\ ~feedSeen
    /\ feedSeen' = TRUE
    /\ IF AppEffectBumps
       THEN /\ refreshTrigger < MaxTrigger
            /\ refreshTrigger' = refreshTrigger + 1
            /\ owed' = FALSE
       ELSE UNCHANGED <<refreshTrigger, owed>>
    /\ lastClick' = NoClick
    /\ UNCHANGED <<store, ui, fetchState, events, loadDeps, reset>>

(***************************************************************************)
(* The whole page: every action of App and of the graph component.  The    *)
(* feed delivers one refresh type and one other type here; SpecFeed below  *)
(* delivers every type.                                                    *)
(***************************************************************************)
FeedSample == {"graph_reset", OtherEventType}

Next ==
    \/ LoadEffect
    \/ Retry
    \/ \E r \in inflight : \E d \in 1..Len(Responses) : FetchSuccess(r, d)
    \/ \E r \in inflight : \E m \in FetchErrors : FetchFailure(r, m)
    \/ \E cls \in Classification : toggleFilter(cls)
    \/ NodeClick
    \/ handleBackgroundClick
    \/ bumpRefresh
    \/ \E t \in FeedSample : ReceiveEvent(t)
    \/ AppEffect

Spec == Init /\ [][Next]_vars

(***************************************************************************)
(* The graph component alone: fetches, refresh signals and user actions.   *)
(***************************************************************************)
NextFetch ==
    \/ LoadEffect
    \/ Retry
    \/ \E r \in inflight : \E d \in 1..Len(Responses) : FetchSuccess(r, d)
    \/ \E r \in inflight : \E m \in FetchErrors : FetchFailure(r, m)
    \/ \E cls \in Classification : toggleFilter(cls)
    \/ NodeClick
    \/ handleBackgroundClick
    \/ bumpRefresh

SpecFetch == Init /\ [][NextFetch]_vars

(***************************************************************************)
(* The refresh path alone: live feed, refresh trigger and fetches.         *)
(***************************************************************************)
NextFeed ==
    \/ LoadEffect
    \/ Retry
    \/ \E r \in inflight : \E d \in 1..Len(Responses) : FetchSuccess(r, d)
    \/ \E r \in inflight : \E m \in FetchErrors : FetchFailure(r, m)
    \/ bumpRefresh
    \/ \E t \in EventTypes : ReceiveEvent(t)
    \/ AppEffect

SpecFeed == Init /\ [][NextFeed]_vars

(***************************************************************************)
(* The projection pipeline over every stored graph within the bounds: the  *)
(* state after a fetch stored any node list and any edge list, then the    *)
(* user actions.  The k-th node of a list has id k; an edge endpoint in    *)
(* 1..MaxNodes that exceeds the length of the node list is dangling.       *)
(***************************************************************************)
Versions == {NoVersion} \cup (0..MaxVersion)
Labels == {Missing, "Strike", "Monitor", "Disregard", "Acquired"}

Kind(t, v, c) == [type |-> t, version |-> v, classification |-> c]

\* every version and every classification value
NodeKinds ==
    {Kind("strategy", v, Missing) : v \in Versions}
    \cup {Kind("company", NoVersion, c) : c \in Labels}
    \cup {Kind(t, NoVersion, Missing) : t \in {"evidence", "lesson"}}

\* the kinds that differ in how the walk and the filters treat them
ShapeKinds ==
    {Kind("strategy", v, Missing) : v \in 0..MaxVersion}
    \cup {Kind("company", NoVersion, "Strike")}
    \cup {Kind(t, NoVersion, Missing) : t \in {"evidence", "lesson"}}

NodeListsOf(kinds) ==
    UNION {{[i \in 1..k |-> Node(i, f[i].type, f[i].version, f[i].classification)]
              : f \in [1..k -> kinds]} : k \in 0..MaxNodes}

EdgeListsOf(n) ==
    UNION {{[i \in 1..k |-> RawEdge(f[i][1], f[i][2])]
              : f \in [1..k -> (1..MaxNodes) \X (1..MaxNodes)]} : k \in 0..n}

\* all kinds with few edges, and the shape kinds with more edges
GraphInputs ==
    (NodeListsOf(NodeKinds) \X EdgeListsOf(MaxSideEdges))
    \cup (NodeListsOf(ShapeKinds) \X EdgeListsOf(MaxEdges))

InitGraph ==
    /\ \E g \in GraphInputs : fullNodes = g[1] /\ rawEdges = g[2]
    /\ loading = FALSE
    /\ error = NoError
    /\ selectedNode = NoNode
    /\ expandedCompany = Null
    /\ activeFilters = AllFilters
    /\ refreshTrigger = 0
    /\ events = <<>>
    /\ feedSeen = TRUE
    /\ loadDeps = <<0>>
    /\ inflight = {}
    /\ requested = 1
    /\ lastOk = NoFetch
    /\ owed = FALSE
    /\ reset = "none"
    /\ lastClick = NoClick

NextGraph ==
    \/ \E cls \in Classification : toggleFilter(cls)
    \/ NodeClick
    \/ handleBackgroundClick

SpecGraph == InitGraph /\ [][NextGraph]_vars

(***************************************************************************)
(* The walk of expandedIds over larger graphs: a company followed by up to *)
(* WalkNodes - 1 nodes of any walk kind, and up to WalkEdges distinct      *)
(* edges between different nodes, in either direction.  The order of the   *)
(* edges in the list does not matter to the walk, so the lists are drawn   *)
(* in one order.  The user toggles the filter of the company's class.      *)
(***************************************************************************)
WalkNodes == 4
WalkEdges == 3

WalkKinds ==
    {Kind("strategy", v, Missing) : v \in 0..MaxVersion}
    \cup {Kind("company", NoVersion, "Strike")}
    \cup {Kind(t, NoVersion, Missing) : t \in {"evidence", "lesson"}}

WalkNodeLists ==
    {[i \in 1..WalkNodes |->
         IF i = 1 THEN Node(1, "company", NoVersion, "Strike")
         ELSE Node(i, f[i].type, f[i].version, f[i].classification)]
       : f \in [2..WalkNodes -> WalkKinds]}

WalkPairs == {p \in (1..WalkNodes) \X (1..WalkNodes) : p[1] # p[2]}
PairRank(p) == p[1] * (WalkNodes + 1) + p[2]

WalkEdgeLists ==
    UNION {{[i \in 1..k |-> RawEdge(f[i][1], f[i][2])]
              : f \in {g \in [1..k -> WalkPairs] :
                          \A i \in 1..(k - 1) : PairRank(g[i]) < PairRank(g[i + 1])}}
           : k \in 0..WalkEdges}

WalkInputs == WalkNodeLists \X WalkEdgeLists

InitWalk ==
    /\ \E g \in WalkInputs : fullNodes = g[1] /\ rawEdges = g[2]
    /\ loading = FALSE
    /\ error = NoError
    /\ selectedNode = NoNode
    /\ expandedCompany = Null
    /\ activeFilters = AllFilters
    /\ refreshTrigger = 0
    /\ events = <<>>
    /\ feedSeen = TRUE
    /\ loadDeps = <<0>>
    /\ inflight = {}
    /\ requested = 1
    /\ lastOk = NoFetch
    /\ owed = FALSE
    /\ reset = "none"
    /\ lastClick = NoClick

NextWalk ==
    \/ toggleFilter("Strike")
    \/ NodeClick
    \/ handleBackgroundClick

SpecWalk == InitWalk /\ [][NextWalk]_vars

(***************************************************************************)
(* Properties of the projection pipeline.                                  *)
(***************************************************************************)
StoredIndex == 1..Len(fullNodes)
StoredIds == {fullNodes[i].id : i \in StoredIndex}
VisibleIds == {Rendered.nodes[i].id : i \in 1..Len(Rendered.nodes)}
ExpandedNow == expandedIds(expandedCompany, rawEdges, fullNodes)
RawIndex == 1..Len(rawEdges)

IsStrategyAt(i) == fullNodes[i].type = "strategy"

\* the first node of the list among the strategy nodes with the greatest version
IsLatestStrategyAt(i) ==
    /\ IsStrategyAt(i)
    /\ \A j \in StoredIndex :
          IsStrategyAt(j) =>
             /\ VersionOrZero(fullNodes[j]) <= VersionOrZero(fullNodes[i])
             /\ (j < i => VersionOrZero(fullNodes[j]) < VersionOrZero(fullNodes[i]))

\* C1: a strategy node is visible iff it is the first node of the stored list
\* among the strategy nodes with the greatest version (an absent version
\* counts as 0), so at most one strategy node is visible and never an older one.
C1_OnlyLatestStrategyVisible ==
    LET vis == VisibleIds
    IN  /\ \A i \in StoredIndex :
              IsStrategyAt(i) => (fullNodes[i].id \in vis <=> IsLatestStrategyAt(i))
        /\ Cardinality({i \in StoredIndex : IsStrategyAt(i) /\ fullNodes[i].id \in vis}) <= 1

\* two strategies share the greatest version, the first is shown, the second
\* and an older one are not, and a filter has been switched off
C1_Witness ==
    /\ activeFilters # AllFilters
    /\ \E i, j, k \in StoredIndex :
          /\ i < j
          /\ IsLatestStrategyAt(i) /\ IsStrategyAt(j) /\ IsStrategyAt(k)
          /\ VersionOrZero(fullNodes[j]) = VersionOrZero(fullNodes[i])
          /\ VersionOrZero(fullNodes[k]) < VersionOrZero(fullNodes[i])
          /\ fullNodes[i].id \in VisibleIds
          /\ fullNodes[j].id \notin VisibleIds
          /\ fullNodes[k].id \notin VisibleIds

\* C2: every rendered link has its source and its target among the ids of the
\* rendered nodes; a link to an id that is not stored, or to a hidden node, is
\* not rendered.
C2_LinksHaveVisibleEndpoints ==
    LET r == Rendered
        ids == {r.nodes[i].id : i \in 1..Len(r.nodes)}
    IN  \A i \in 1..Len(r.links) :
           /\ r.links[i].source \in ids
           /\ r.links[i].target \in ids

\* one link is rendered while a stored edge with a dangling endpoint and a
\* stored edge with a hidden endpoint are dropped
C2_Witness ==
    /\ Len(Rendered.links) >= 1
    /\ \E i \in RawIndex :
          rawEdges[i].source \notin StoredIds \/ rawEdges[i].target \notin StoredIds
    /\ \E i \in RawIndex :
          \/ rawEdges[i].source \in StoredIds \ VisibleIds
          \/ rawEdges[i].target \in StoredIds \ VisibleIds

\* C3: without a focus nothing is revealed; with a focus, every revealed id is
\* the id of a stored node of type evidence or lesson.
C3_RevealsOnlyDetails ==
    LET revealed == ExpandedNow
    IN
    /\ expandedCompany = Null => revealed = {}
    /\ \A id \in revealed :
          /\ \E i \in StoredIndex :
                fullNodes[i].id = id /\ fullNodes[i].type \in {"evidence", "lesson"}
          /\ \A i \in StoredIndex :
                fullNodes[i].id = id => fullNodes[i].type \notin {"strategy", "company"}

\* the focus has a strategy neighbour, through which a node is revealed, and
\* neither the focus nor the strategy is in the revealed set
C3_Witness ==
    /\ expandedCompany # Null
    /\ ExpandedNow # {}
    /\ expandedCompany \notin ExpandedNow
    /\ \E i \in StoredIndex :
          /\ IsStrategyAt(i)
          /\ fullNodes[i].id \in MapGet(Adjacency(rawEdges), expandedCompany)
          /\ fullNodes[i].id \notin ExpandedNow
          /\ ExpandedNow \subseteq MapGet(Adjacency(rawEdges), fullNodes[i].id)

EndpointIds == 0..(MaxNodes + 1)
Joined(a, b) ==
    \E i \in RawIndex :
       \/ rawEdges[i].source = a /\ rawEdges[i].target = b
       \/ rawEdges[i].source = b /\ rawEdges[i].target = a

\* C4: the adjacency map of the stored edges is symmetric, and two ids are
\* neighbours exactly when some edge has them as its two endpoints.
C4_AdjacencySymmetric ==
    LET adj == Adjacency(rawEdges)
    IN  /\ DOMAIN adj \subseteq EndpointIds
        /\ \A a, b \in EndpointIds :
              /\ b \in MapGet(adj, a) <=> a \in MapGet(adj, b)
              /\ b \in MapGet(adj, a) <=> Joined(a, b)

\* a focus is set over an edge list that joins two nodes in both directions
C4_Witness ==
    /\ expandedCompany # Null
    /\ \E i, j \in RawIndex :
          /\ rawEdges[i].source # rawEdges[i].target
          /\ rawEdges[j].source = rawEdges[i].target
          /\ rawEdges[j].target = rawEdges[i].source
          /\ expandedCompany \in {rawEdges[i].source, rawEdges[i].target}

ResolvedLabel(c) == IF c \in {"Strike", "Monitor", "Disregard"} THEN c ELSE "Unclassified"

\* C5: a company node is visible iff its resolved classification (the stored
\* value when it is Strike, Monitor or Disregard, else Unclassified) is active,
\* whatever the focus and the edges; with no active filter no company is visible.
C5_CompanyVisibleIffActive ==
    LET vis == VisibleIds
    IN
    /\ \A i \in StoredIndex :
          fullNodes[i].type = "company" =>
             (fullNodes[i].id \in vis
                <=> ResolvedLabel(fullNodes[i].classification) \in activeFilters)
    /\ activeFilters = {} =>
          \A i \in StoredIndex : fullNodes[i].type = "company" => fullNodes[i].id \notin vis

\* a company with an unknown label is the focus and has an edge, and is hidden
\* because Unclassified is switched off
C5_Witness ==
    \E i \in StoredIndex :
       /\ fullNodes[i].type = "company"
       /\ fullNodes[i].classification = "Acquired"
       /\ expandedCompany = fullNodes[i].id
       /\ "Unclassified" \notin activeFilters
       /\ activeFilters # {}
       /\ fullNodes[i].id \notin VisibleIds
       /\ ExpandedNow # {}

\* C6: a click on company c sets the focus to c when it was null or another
\* company and to null when it was c; a second click on c right after a first
\* one restores the focus of before the first click iff that was null or c.
C6_ClickTogglesFocus ==
    [][\A n \in SeqToSet(Rendered.nodes) :
              (n.type = "company" /\ handleNodeClick(n)) =>
                 /\ expandedCompany' = (IF expandedCompany = n.id THEN Null ELSE n.id)
                 /\ lastClick.id = n.id =>
                       (expandedCompany' = lastClick.before
                          <=> lastClick.before \in {Null, n.id})]_vars

\* a company was clicked while it was the focus, which collapsed the focus
C6_Witness ==
    /\ lastClick.id # Null
    /\ lastClick.before = lastClick.id
    /\ expandedCompany = Null
    /\ selectedNode.id = lastClick.id

(***************************************************************************)
(* Properties of the fetches and of the refresh path.                      *)
(***************************************************************************)
\* C7: while a fetch is outstanding and a graph is stored, the graph view (the
\* visible subgraph of the stored nodes and edges) is what is displayed,
\* neither the loading view nor the error view.
C7_StaleGraphWhileFetching ==
    (inflight # {} /\ Len(fullNodes) > 0 /\ lastOk # NoFetch) => View = "graph"

StoreOf(d) == <<NodesOf(Responses[d]), EdgesOf(Responses[d])>>

\* C8: the store always holds the nodes and the edges of the response that
\* resolved last (nothing before the first one), whichever request it answers,
\* and a request leaves the outstanding set only by settling, never because
\* another load starts.
C8_LastResolvedWins ==
    /\ [](store = IF lastOk = NoFetch THEN <<(<<>>), (<<>>)>> ELSE StoreOf(lastOk.data))
    /\ [][\A r \in inflight :
             r \notin inflight' =>
                \/ \E d \in 1..Len(Responses) : FetchSuccess(r, d)
                \/ \E m \in FetchErrors : FetchFailure(r, m)]_vars

\* of two overlapping fetches that both succeeded, the one requested first
\* resolved last, and the store holds its non-empty response
C8_Witness ==
    /\ lastOk.req >= 1
    /\ lastOk.prev > lastOk.req
    /\ store = StoreOf(lastOk.data)
    /\ Len(fullNodes) > 0
    /\ inflight = {}

\* a load started after the latest reset signal, every fetch has settled without
\* error, no effect is pending and the user has not acted since the signal
ResetProcessed ==
    /\ reset = "started"
    /\ inflight = {}
    /\ loadDeps = <<refreshTrigger>>
    /\ error = NoError

\* C9: once a graph reset has been processed, all four classifications are
\* active, the expansion focus is null and the selected node is null.
C9_ResetRestoresFilterState ==
    ResetProcessed =>
       /\ activeFilters = AllFilters
       /\ expandedCompany = Null
       /\ selectedNode = NoNode

\* C10: once the effect on [events] has run for the current events and the load
\* effect has run for the current refresh trigger, no received refresh event is
\* left that was followed neither by an increment of the trigger nor by a load.
C10_RefreshEventStartsRefetch ==
    (feedSeen /\ loadDeps = <<refreshTrigger>>) => ~owed

\* the error view, which shows the message and the Retry button
RetryShown == View = "error"

\* C11: a fetch failure keeps the stored graph and leaves the component with
\* the Retry button on display; Retry starts a new fetch; and when a fetch
\* succeeds after a failure the error is no longer shown.
C11_FailureRecovered ==
    [][/\ (\E r \in inflight : \E m \in FetchErrors : FetchFailure(r, m)) =>
             (store' = store /\ RetryShown')
       /\ Retry => (requested' = requested + 1 /\ requested' \in inflight' /\ ~RetryShown')
       /\ (\E r \in inflight : \E d \in 1..Len(Responses) : FetchSuccess(r, d)) =>
             ~RetryShown']_vars

IsDetailAt(i) == fullNodes[i].type \in {"evidence", "lesson"}

\* id a is joined to the focus, or to a stored strategy node joined to the focus
NearFocus(a) ==
    \/ Joined(a, expandedCompany)
    \/ \E j \in StoredIndex :
          /\ IsStrategyAt(j)
          /\ Joined(fullNodes[j].id, expandedCompany)
          /\ Joined(a, fullNodes[j].id)

\* C12: an evidence or lesson node is visible iff the focus is not null and the
\* node is joined by an edge, in either direction, to the focus or to a node of
\* type strategy that is joined to the focus, whether that strategy is the
\* visible one or not and whether the focus company is visible or not; nothing
\* farther away or behind another kind of intermediate node is visible.
C12_DetailVisibleIffNearFocus ==
    LET vis == VisibleIds
    IN  \A i \in StoredIndex :
           IsDetailAt(i) =>
              (fullNodes[i].id \in vis
                 <=> (expandedCompany # Null /\ NearFocus(fullNodes[i].id)))

\* the focus company is hidden by the filter, and a detail node that is not
\* joined to the focus is visible through a strategy that is itself hidden
\* because it is not the latest one
C12_Witness ==
    /\ expandedCompany # Null
    /\ expandedCompany \notin VisibleIds
    /\ \E i, j \in StoredIndex :
          /\ IsDetailAt(i) /\ fullNodes[i].id \in VisibleIds
          /\ ~Joined(fullNodes[i].id, expandedCompany)
          /\ IsStrategyAt(j) /\ fullNodes[j].id \notin VisibleIds
          /\ Joined(fullNodes[j].id, expandedCompany)
          /\ Joined(fullNodes[i].id, fullNodes[j].id)

(***************************************************************************)
(* Properties of the UI filter state.                                      *)
(***************************************************************************)
CompanyClick ==
    \E n \in SeqToSet(Rendered.nodes) : n.type = "company" /\ handleNodeClick(n)
OtherNodeClick ==
    \E n \in SeqToSet(Rendered.nodes) : n.type # "company" /\ handleNodeClick(n)

\* a step of the fetch or of the refresh path
FetchOrRefreshStep ==
    \/ LoadEffect
    \/ Retry
    \/ \E r \in inflight : \E d \in 1..Len(Responses) : FetchSuccess(r, d)
    \/ \E r \in inflight : \E m \in FetchErrors : FetchFailure(r, m)
    \/ bumpRefresh
    \/ \E t \in EventTypes : ReceiveEvent(t)
    \/ AppEffect

\* C13: the filter state starts with all four classifications active, no focus
\* and no selection; the filter set changes only by a toggle, which flips the
\* toggled classification alone; the focus changes only by a company click or a
\* background click; the selection changes only by a node click or a background
\* click; a click on another node, a fetch start, success or failure and a
\* refresh event leave the other fields as they are.
C13_FilterStateChangesByUserOnly ==
    /\ activeFilters = AllFilters /\ expandedCompany = Null /\ selectedNode = NoNode
    /\ [][/\ activeFilters' # activeFilters =>
                \E cls \in Classification :
                   /\ toggleFilter(cls)
                   /\ (activeFilters' \ activeFilters) \cup (activeFilters \ activeFilters')
                         = {cls}
                   /\ UNCHANGED <<selectedNode, expandedCompany>>
          /\ expandedCompany' # expandedCompany => (CompanyClick \/ handleBackgroundClick)
          /\ selectedNode' # selectedNode => (NodeClick \/ handleBackgroundClick)
          /\ <<expandedCompany, activeFilters>>' # <<expandedCompany, activeFilters>>
                => ~OtherNodeClick
          /\ activeFilters' # activeFilters => ~(CompanyClick \/ handleBackgroundClick)
          /\ ui' # ui => ~FetchOrRefreshStep]_vars

\* a filter is off, a company is the focus and a strategy node is selected,
\* and since then a graph reset event started a fetch that has succeeded
C13_Witness ==
    /\ activeFilters # AllFilters
    /\ expandedCompany # Null
    /\ selectedNode.type = "strategy"
    /\ reset = "started"
    /\ Len(events) > 0
    /\ inflight = {}
    /\ error = NoError
    /\ lastOk.prev >= 1

(***************************************************************************)
(* Properties of a failed fetch.                                           *)
(***************************************************************************)
\* a request settles without becoming the last successful one
FailureStep == inflight' # inflight /\ inflight' \subseteq inflight /\ lastOk' = lastOk

\* C14: a fetch that fails changes the error message and the loading flag and
\* nothing else of the component state, so the stored nodes and edges are those
\* of before the failure (empty while no fetch has succeeded); the store
\* changes only in a step in which a fetch resolves successfully.
C14_FailureKeepsStore ==
    /\ [](lastOk = NoFetch => (fullNodes = <<>> /\ rawEdges = <<>>))
    /\ [][/\ FailureStep =>
                /\ error' \in FetchErrors
                /\ loading' = FALSE
                /\ UNCHANGED <<store, ui, requested>>
          /\ store' # store =>
                \E r \in inflight : \E d \in 1..Len(Responses) : FetchSuccess(r, d)]_vars

\* a fetch succeeded, a later request failed, and the store still holds the
\* graph of the successful one
C14_Witness ==
    /\ error # NoError
    /\ ~loading
    /\ inflight = {}
    /\ lastOk # NoFetch
    /\ lastOk.req < requested
    /\ store = StoreOf(lastOk.data)
    /\ Len(fullNodes) > 0
    /\ Len(rawEdges) > 0

(***************************************************************************)
(* Properties of the selection.                                            *)
(***************************************************************************)
\* C15: whenever the expansion focus is not null, the selected node is not
\* null either.
C15_FocusImpliesSelection ==
    expandedCompany # Null => selectedNode # NoNode

\* after a refetch and with a filter off, a company is the focus while the
\* selected node is another node
C15_Witness ==
    /\ expandedCompany # Null
    /\ selectedNode # NoNode
    /\ selectedNode.id # expandedCompany
    /\ activeFilters # AllFilters
    /\ lastOk.prev >= 1

\* a node is selected while there is no focus, after a company was collapsed
C15_SelectionWithoutFocus ==
    /\ expandedCompany = Null
    /\ selectedNode.type = "company"
    /\ lastClick.before = selectedNode.id

====
